---- MODULE Spec2Model ----
(***************************************************************************)
(* Model of promptInstructionsAttachment.ts:                               *)
(*   - PromptInstructionsFileReader (listFiles and its two helpers), and   *)
(*   - PromptInstructionsAttachmentWidget (toggle, references, the         *)
(*     onDidChangeContext handler, render, dispose).                       *)
(* A URI is modelled by its path: a sequence of segments, each segment a   *)
(* sequence of characters.  An optional value (`x?: T`) is a sequence of   *)
(* length 0 (undefined) or 1 (defined).                                    *)
(***************************************************************************)
EXTENDS Naturals, Sequences, FiniteSets

VARIABLES
    \* ---- PromptInstructionsFileReader: one listFiles call ----
    pc,            \* position of the call: "idle", "awaiting", "done"
    callState,     \* `state` read by getSourceLocations
    callFolders,   \* `folders` of the workspace at the time of the call
    requests,      \* the argument of every resolveAll invocation of this call
    results,       \* `results`: the outcomes resolveAll has so far, then all
    files,         \* `files`, the value the call returns
    \* ---- PromptInstructionsAttachmentWidget ----
    _enabled,          \* this._enabled
    _uri,              \* this._uri (optional)
    disposed,          \* dispose() has run
    subscribed,        \* the onDidChangeContext listener is registered
    fired,             \* number of this._onEnabledStateChange.fire() so far
    toggling,          \* toggle() has fired and has not rendered yet
    listenerSaw,       \* this._enabled as a listener of the last fire() read it
    handled,           \* number of runs of the change handler so far
    handlerRenders,    \* number of render() runs made by the change handler
    hovers,            \* managed hovers set up by render() and still live
    domVisible,        \* dom.setVisibility(..., this.domNode)
    domDisabled,       \* this.domNode.classList contains 'disabled'
    buttonsLive,       \* the rendered buttons' click listeners are attached
    promptInstructions,\* attachmentsModel.promptInstructions (optional)
    pending,           \* onDidChangeContext emissions not yet delivered
    \* ---- overlapping listFiles calls on a changing workspace ----
    workspace,         \* what getWorkbenchState / getWorkspace return now
    calls              \* for each call: its position and its locals

readerVars == <<pc, callState, callFolders, requests, results, files>>
widgetVars == <<_enabled, _uri, disposed, subscribed, fired, toggling,
                listenerSaw, handled, handlerRenders, hovers,
                domVisible, domDisabled, buttonsLive, promptInstructions, pending>>
overlapVars == <<workspace, calls>>
vars == <<readerVars, widgetVars, overlapVars>>

---------------------------------------------------------------------------
(* Bounds of the model *)

\* most workspace folders open at a time
MaxFolders == 2
\* most directory entries in one resolveAll response, over all its locations
MaxEntries == 2
\* most valid file references of a prompt-instructions document
MaxRefs == 2
\* most toggle calls in a run
MaxToggles == 3
\* most change notifications emitted to a subscribed widget in a run
MaxHandled == 3
\* most change notifications emitted and not yet delivered
MaxPending == 2

---------------------------------------------------------------------------
(* Strings and URIs *)

INSTRUCTIONS_FOLDER_NAME ==
    <<".", "c", "o", "p", "i", "l", "o", "t", "/",
      "i", "n", "s", "t", "r", "u", "c", "t", "i", "o", "n", "s">>

INSTRUCTIONS_FILE_EXTENSION == <<".", "m", "d">>

\* String.prototype.endsWith
endsWith(name, suffix) ==
    /\ Len(name) >= Len(suffix)
    /\ SubSeq(name, Len(name) - Len(suffix) + 1, Len(name)) = suffix

\* the segments of a relative path: split at "/", empty segments dropped
RECURSIVE Segments(_, _)
Segments(path, acc) ==
    IF path = <<>>
    THEN IF acc = <<>> THEN <<>> ELSE <<acc>>
    ELSE IF Head(path) = "/"
         THEN (IF acc = <<>> THEN <<>> ELSE <<acc>>) \o Segments(Tail(path), <<>>)
         ELSE Segments(Tail(path), Append(acc, Head(path)))

\* URI.joinPath(uri, pathFragment)
joinPath(uri, fragment) == uri \o Segments(fragment, <<>>)

---------------------------------------------------------------------------
(* The workspace collaborator: what getWorkbenchState / getWorkspace return *)

WorkbenchState == {"EMPTY", "FOLDER", "WORKSPACE"}

FolderUris == { << <<"F", "1">> >>, << <<"F", "2">> >> }

\* sequences of workspace folders; the reader does not rely on the folders
\* being distinct, and the collaborator's interface does not promise it
FolderSeqs == UNION { [1..n -> FolderUris] : n \in 0..MaxFolders }

\* EMPTY: no folder open; FOLDER: exactly one; WORKSPACE: any number
WorkspaceConfigs ==
    { c \in [state : WorkbenchState, folders : FolderSeqs] :
        /\ c.state = "EMPTY" => c.folders = <<>>
        /\ c.state = "FOLDER" => Len(c.folders) = 1 }

---------------------------------------------------------------------------
(* The storage collaborator: what resolveAll resolves to *)

FileEntry(name) == [name |-> name, isDirectory |-> FALSE, children |-> <<>>]

\* directory entries a listing is made of
EntryPool ==
    { FileEntry(<<"a", ".", "m", "d">>),
      FileEntry(<<"a", ".", "b", ".", "m", "d">>),
      FileEntry(<<".", "m", "d">>),
      FileEntry(<<"f", "o", "o", ".", "M", "D">>),
      FileEntry(<<"b", ".", "t", "x", "t">>),
      [name |-> <<"s", "u", "b", ".", "m", "d">>, isDirectory |-> TRUE,
       children |-> << FileEntry(<<"d", "e", "e", "p", ".", "m", "d">>) >>] }

\* the IFileStat of entry e of directory dir
RECURSIVE Child(_, _)
Child(dir, e) ==
    [name |-> e.name,
     resource |-> joinPath(dir, e.name),
     isDirectory |-> e.isDirectory,
     children |-> [i \in 1..Len(e.children) |->
                      Child(joinPath(dir, e.name), e.children[i])]]

NoStat == [defined |-> FALSE, hasChildren |-> FALSE, children |-> <<>>]

\* the outcomes resolveAll can report for one location
Failed == [success |-> FALSE, stat |-> NoStat]
SuccessNoStat == [success |-> TRUE, stat |-> NoStat]
SuccessNoChildren ==
    [success |-> TRUE,
     stat |-> [defined |-> TRUE, hasChildren |-> FALSE, children |-> <<>>]]
Listing(location, entries) ==
    [success |-> TRUE,
     stat |-> [defined |-> TRUE, hasChildren |-> TRUE,
               children |-> [i \in 1..Len(entries) |-> Child(location, entries[i])]]]

Outcomes(location, budget) ==
    {Failed, SuccessNoStat, SuccessNoChildren}
      \cup { Listing(location, es) :
               es \in UNION { [1..k -> EntryPool] : k \in 0..budget } }

\* the number of directory entries the outcomes rs hold
RECURSIVE Entries(_)
Entries(rs) ==
    IF rs = <<>> THEN 0 ELSE Len(Head(rs).stat.children) + Entries(Tail(rs))

---------------------------------------------------------------------------
(* PromptInstructionsFileReader *)

\* getSourceLocations mapping the folders in reverse order
getSourceLocationsReversed(state, folders) ==
    IF state = "EMPTY"
    THEN <<>>
    ELSE [i \in 1..Len(folders) |->
            joinPath(folders[Len(folders) + 1 - i], INSTRUCTIONS_FOLDER_NAME)]

getSourceLocations(state, folders) ==
    IF state = "EMPTY"
    THEN <<>>
    ELSE [i \in 1..Len(folders) |-> joinPath(folders[i], INSTRUCTIONS_FOLDER_NAME)]

\* the argument findInstructionsFiles passes to resolveAll
resolveAllArgument(locations) ==
    [i \in 1..Len(locations) |-> [resource |-> locations[i]]]

\* the inner loop without its isDirectory test
RECURSIVE keptChildrenNoDirCheck(_)
keptChildrenNoDirCheck(children) ==
    IF children = <<>>
    THEN <<>>
    ELSE LET child == Head(children)
         IN  IF ~endsWith(child.name, INSTRUCTIONS_FILE_EXTENSION)
             THEN keptChildrenNoDirCheck(Tail(children))
             ELSE <<child.resource>> \o keptChildrenNoDirCheck(Tail(children))

\* the inner loop: the children of one result that are pushed to `files`
RECURSIVE keptChildren(_)
keptChildren(children) ==
    IF children = <<>>
    THEN <<>>
    ELSE LET child == Head(children)
         IN  IF child.isDirectory
             THEN keptChildren(Tail(children))
             ELSE IF ~endsWith(child.name, INSTRUCTIONS_FILE_EXTENSION)
                  THEN keptChildren(Tail(children))
                  ELSE <<child.resource>> \o keptChildren(Tail(children))

\* the outer loop leaving at the first unusable result instead of skipping it
RECURSIVE collectFilesStopAtFailure(_)
collectFilesStopAtFailure(rs) ==
    IF rs = <<>>
    THEN <<>>
    ELSE LET result == Head(rs)
         IN  IF ~result.success \/ ~result.stat.defined \/ ~result.stat.hasChildren
             THEN <<>>
             ELSE keptChildren(result.stat.children)
                     \o collectFilesStopAtFailure(Tail(rs))

\* the outer loop pushing a resource only when `files` does not hold it yet
RECURSIVE dedup(_, _)
dedup(seq, seen) ==
    IF seq = <<>>
    THEN <<>>
    ELSE IF Head(seq) \in seen
         THEN dedup(Tail(seq), seen)
         ELSE <<Head(seq)>> \o dedup(Tail(seq), seen \cup {Head(seq)})

RECURSIVE collectAll(_)
collectAll(rs) ==
    IF rs = <<>>
    THEN <<>>
    ELSE LET result == Head(rs)
         IN  IF ~result.success \/ ~result.stat.defined \/ ~result.stat.hasChildren
             THEN collectAll(Tail(rs))
             ELSE keptChildren(result.stat.children) \o collectAll(Tail(rs))

collectFilesDedup(rs) == dedup(collectAll(rs), {})

\* the outer loop of findInstructionsFiles over `results`
RECURSIVE collectFiles(_)
collectFiles(rs) ==
    IF rs = <<>>
    THEN <<>>
    ELSE LET result == Head(rs)
         IN  IF ~result.success
             THEN collectFiles(Tail(rs))
             ELSE IF ~result.stat.defined \/ ~result.stat.hasChildren
                  THEN collectFiles(Tail(rs))
                  ELSE keptChildren(result.stat.children) \o collectFiles(Tail(rs))

\* listFiles up to its await: getSourceLocations, then the resolveAll request
ListFiles ==
    /\ pc = "idle"
    /\ \E c \in WorkspaceConfigs :
         /\ callState' = c.state
         /\ callFolders' = c.folders
         /\ requests' = Append(requests,
                resolveAllArgument(getSourceLocations(c.state, c.folders)))
    /\ pc' = "awaiting"
    /\ UNCHANGED <<results, files>>
    /\ UNCHANGED <<widgetVars, overlapVars>>

\* the storage collaborator resolves the next location of the pending
\* request: one outcome per requested location, in the order of the request
StorageResolves ==
    /\ pc = "awaiting"
    /\ Len(results) < Len(requests[Len(requests)])
    /\ \E r \in Outcomes(requests[Len(requests)][Len(results) + 1].resource,
                          MaxEntries - Entries(results)) :
         results' = Append(results, r)
    /\ UNCHANGED <<pc, callState, callFolders, requests, files>>
    /\ UNCHANGED <<widgetVars, overlapVars>>

\* resolveAll resolves; findInstructionsFiles filters and listFiles returns
ResolveAllReturns ==
    /\ pc = "awaiting"
    /\ Len(results) = Len(requests[Len(requests)])
    /\ files' = collectFiles(results)
    /\ pc' = "done"
    /\ UNCHANGED <<callState, callFolders, requests, results>>
    /\ UNCHANGED <<widgetVars, overlapVars>>

\* the caller takes the result; the reader keeps nothing of the call
Return ==
    /\ pc = "done"
    /\ pc' = "idle"
    /\ callState' = "EMPTY"
    /\ callFolders' = <<>>
    /\ requests' = <<>>
    /\ results' = <<>>
    /\ files' = <<>>
    /\ UNCHANGED <<widgetVars, overlapVars>>

---------------------------------------------------------------------------
(* Overlapping listFiles calls while the workspace changes *)

CallIds == {"first", "second"}

\* the workspace descriptions the workspace moves between
OverlapConfigs ==
    { [state |-> "EMPTY", folders |-> <<>>],
      [state |-> "FOLDER", folders |-> << << <<"F", "1">> >> >>],
      [state |-> "WORKSPACE", folders |-> << << <<"F", "2">> >> >>],
      [state |-> "WORKSPACE",
       folders |-> << << <<"F", "1">> >>, << <<"F", "2">> >> >>] }

\* what the storage may report for one location; a directory's content is
\* volatile, so every request is answered anew
OverlapOutcomes(location) ==
    { Failed,
      Listing(location, << FileEntry(<<"a", ".", "m", "d">>) >>),
      Listing(location, << FileEntry(<<"b", ".", "t", "x", "t">>) >>) }

\* a call that has not started: the reader has no fields of its own
IdleCall ==
    [pc |-> "idle", state |-> "EMPTY", folders |-> <<>>,
     requests |-> <<>>, results |-> <<>>, files |-> <<>>]

\* a reader that reuses the request of a call still in flight
callRequestShared(c, ws) ==
    IF \E d \in CallIds \ {c} : calls[d].pc # "idle"
    THEN LET d == CHOOSE d \in CallIds \ {c} : calls[d].pc # "idle"
         IN  calls[d].requests[1]
    ELSE resolveAllArgument(getSourceLocations(ws.state, ws.folders))

\* the resolveAll argument of call c, started on workspace ws
callRequest(c, ws) ==
    resolveAllArgument(getSourceLocations(ws.state, ws.folders))

\* folders are added or removed, or the workbench state changes
WorkspaceChanges ==
    /\ \E ws \in OverlapConfigs \ {workspace} : workspace' = ws
    /\ UNCHANGED <<calls, readerVars, widgetVars>>

\* listFiles up to its await, for call c
CallListFiles(c) ==
    /\ calls[c].pc = "idle"
    /\ calls' = [calls EXCEPT ![c] =
                    [pc |-> "awaiting",
                     state |-> workspace.state,
                     folders |-> workspace.folders,
                     requests |-> << callRequest(c, workspace) >>,
                     results |-> <<>>,
                     files |-> <<>>]]
    /\ UNCHANGED <<workspace, readerVars, widgetVars>>

\* the storage resolves the next location of call c's request
CallStorageResolves(c) ==
    /\ calls[c].pc = "awaiting"
    /\ Len(calls[c].results) < Len(calls[c].requests[1])
    /\ \E r \in OverlapOutcomes(
                  calls[c].requests[1][Len(calls[c].results) + 1].resource) :
         calls' = [calls EXCEPT ![c].results = Append(@, r)]
    /\ UNCHANGED <<workspace, readerVars, widgetVars>>

\* resolveAll resolves for call c, which filters and returns
CallResolveAllReturns(c) ==
    /\ calls[c].pc = "awaiting"
    /\ Len(calls[c].results) = Len(calls[c].requests[1])
    /\ calls' = [calls EXCEPT ![c].pc = "done",
                              ![c].files = collectFiles(calls[c].results)]
    /\ UNCHANGED <<workspace, readerVars, widgetVars>>

\* the caller of call c takes the result
CallReturn(c) ==
    /\ calls[c].pc = "done"
    /\ calls' = [calls EXCEPT ![c] = IdleCall]
    /\ UNCHANGED <<workspace, readerVars, widgetVars>>

AnyCallListFiles == \E c \in CallIds : CallListFiles(c)
AnyCallStorageResolves == \E c \in CallIds : CallStorageResolves(c)
AnyCallResolveAllReturns == \E c \in CallIds : CallResolveAllReturns(c)
AnyCallReturn == \E c \in CallIds : CallReturn(c)

OverlapNext ==
    \/ WorkspaceChanges
    \/ AnyCallListFiles
    \/ AnyCallStorageResolves
    \/ AnyCallResolveAllReturns
    \/ AnyCallReturn

---------------------------------------------------------------------------
(* The upstream attachment model: attachmentsModel.promptInstructions *)

DocUris == { << <<"U", "1">> >>, << <<"U", "2">> >> }
RefUris == { << <<"R", "1">> >>, << <<"R", "2">> >> }

\* the values of attachmentsModel.promptInstructions: absent, or a document
\* with its valid file references
PromptInstructionsValues ==
    { <<>> } \cup
    { <<d>> : d \in [uri : DocUris,
                     validFileReferenceUris :
                         UNION { [1..n -> RefUris] : n \in 0..MaxRefs }] }

---------------------------------------------------------------------------
(* PromptInstructionsAttachmentWidget *)

\* get visible()
visible == _uri # <<>>

\* get references() putting the document before its references
referencesPrimaryFirst ==
    IF promptInstructions = <<>>
    THEN <<>>
    ELSE <<promptInstructions[1].uri>>
            \o promptInstructions[1].validFileReferenceUris

\* get references()
references ==
    IF promptInstructions = <<>>
    THEN <<>>
    ELSE promptInstructions[1].validFileReferenceUris
            \o <<promptInstructions[1].uri>>

\* this.attachmentsModel.promptInstructions?.uri
modelUri(pi) == IF pi = <<>> THEN <<>> ELSE <<pi[1].uri>>

\* render() adding the hover to renderDisposables, which it clears first
renderHoversScoped(uri, enabled) ==
    /\ domVisible' = (uri # <<>>)
    /\ domDisabled' = IF uri = <<>> THEN domDisabled ELSE ~enabled
    /\ buttonsLive' = (uri # <<>>)
    /\ hovers' = IF uri = <<>> THEN 0 ELSE 1

\* render() toggling the 'disabled' class only when it hides the node
renderDisabledMisplaced(uri, enabled) ==
    /\ domVisible' = (uri # <<>>)
    /\ domDisabled' = IF uri = <<>> THEN ~enabled ELSE domDisabled
    /\ buttonsLive' = (uri # <<>>)
    /\ hovers' = IF uri = <<>> THEN hovers ELSE hovers + 1

\* render(), run with this._uri = uri and this._enabled = enabled.
\* renderDisposables.clear() releases the buttons, listeners and context key
\* services of the previous render; with a URI set they are created anew and
\* added to renderDisposables (a disposed store does not dispose what is
\* added to it), and one more managed hover is set up and handed to
\* this._register, not to renderDisposables
render(uri, enabled) ==
    /\ domVisible' = (uri # <<>>)
    /\ domDisabled' = IF uri = <<>> THEN domDisabled ELSE ~enabled
    /\ buttonsLive' = (uri # <<>>)
    /\ hovers' = IF uri = <<>> THEN hovers ELSE hovers + 1

\* the state the constructor leaves, built against a model holding pi
WidgetInit(pi) ==
    /\ _enabled = TRUE
    /\ _uri = <<>>
    /\ disposed = FALSE
    /\ subscribed = TRUE
    /\ fired = 0
    /\ toggling = FALSE
    /\ listenerSaw = TRUE
    /\ handled = 0
    /\ handlerRenders = 0
    /\ hovers = 0
    /\ domVisible = FALSE
    /\ domDisabled = FALSE
    /\ buttonsLive = FALSE
    /\ promptInstructions = pi
    /\ pending = 0

\* toggle() switching the attachment off instead of flipping it
toggledOff(enabled) == FALSE

\* the value toggle() writes to this._enabled
toggled(enabled) == ~enabled

\* whether _onEnabledStateChange is registered with the widget's store (it is
\* created with `new Emitter<void>()`, not `this._register(new Emitter())`),
\* so that dispose() would dispose it and a later fire() reach no listener
emitterRegistered == FALSE

\* toggle() firing before it flips this._enabled
enabledAtFireBeforeFlip(enabled) == enabled

\* this._enabled as fire() finds it: the flip precedes the fire
enabledAtFire(enabled) == toggled(enabled)

\* toggle(), called by the host or by a click on the toggle button, up to
\* the point where the listeners of onEnabledStateChange run
Toggle ==
    /\ ~toggling
    /\ fired < MaxToggles
    /\ _enabled' = toggled(_enabled)
    /\ fired' = IF disposed /\ emitterRegistered THEN fired ELSE fired + 1
    /\ listenerSaw' = enabledAtFire(_enabled)
    /\ toggling' = TRUE
    /\ UNCHANGED <<_uri, disposed, subscribed, handled, handlerRenders, hovers,
                   domVisible, domDisabled, buttonsLive,
                   promptInstructions, pending>>
    /\ UNCHANGED <<readerVars, overlapVars>>

\* toggle() after fire() has returned: this.render()
ToggleRender ==
    /\ toggling
    /\ toggling' = FALSE
    /\ render(_uri, _enabled)
    /\ UNCHANGED <<_enabled, _uri, disposed, subscribed, fired, listenerSaw,
                   handled, handlerRenders, promptInstructions, pending>>
    /\ UNCHANGED <<readerVars, overlapVars>>

\* the upstream model changes and emits onDidChangeContext; while toggle()
\* is firing, the change is one a listener of onEnabledStateChange makes
ModelChange ==
    /\ pending < MaxPending
    /\ handled + pending < MaxHandled
    /\ \E pi \in PromptInstructionsValues : promptInstructions' = pi
    /\ pending' = pending + 1
    /\ UNCHANGED <<_enabled, _uri, disposed, subscribed, fired, toggling,
                   listenerSaw, handled, handlerRenders, hovers,
                   domVisible, domDisabled, buttonsLive>>
    /\ UNCHANGED <<readerVars, overlapVars>>

\* the remove button's click listener clearing this._uri and rendering
RemoveClickClearingUri ==
    /\ buttonsLive
    /\ ~toggling
    /\ pending < MaxPending
    /\ handled + pending < MaxHandled
    /\ promptInstructions' = <<>>
    /\ pending' = pending + 1
    /\ _uri' = <<>>
    /\ render(_uri', _enabled)
    /\ UNCHANGED <<_enabled, disposed, subscribed, fired, toggling,
                   listenerSaw, handled, handlerRenders>>
    /\ UNCHANGED <<readerVars, overlapVars>>

\* the click listener of the remove button:
\* this.attachmentsModel.removePromptInstructions()
RemoveClick ==
    /\ buttonsLive
    /\ ~toggling
    /\ pending < MaxPending
    /\ handled + pending < MaxHandled
    /\ promptInstructions' = <<>>
    /\ pending' = pending + 1
    /\ UNCHANGED <<_enabled, _uri, disposed, subscribed, fired, toggling,
                   listenerSaw, handled, handlerRenders, hovers,
                   domVisible, domDisabled, buttonsLive>>
    /\ UNCHANGED <<readerVars, overlapVars>>

\* the change handler keeping the last URI when the document is detached
handlerUriKeptOnDetach(pi) == IF pi = <<>> THEN _uri ELSE <<pi[1].uri>>

\* the value the change handler writes to this._uri
handlerUri(pi) == modelUri(pi)

\* the change handler rendering only if the URI has changed
handlerRendersOnUriChange(old, new) == old # new

\* whether the change handler renders: always
handlerRendersOn(old, new) == TRUE

\* the change handler enabling the attachment whenever a document is set
handlerEnabledOnAttach(enabled, uri) == IF uri # <<>> THEN TRUE ELSE enabled

\* this._enabled after the change handler has run: it does not write it
handlerEnabled(enabled, uri) == enabled

\* one onDidChangeContext emission is delivered to its listeners; the
\* widget's handler, if still registered, runs to its end
OnDidChangeContext ==
    /\ pending > 0
    /\ pending' = pending - 1
    /\ IF subscribed
       THEN /\ _uri' = handlerUri(promptInstructions)
            /\ _enabled' = handlerEnabled(_enabled, _uri')
            /\ handled' = handled + 1
            /\ IF handlerRendersOn(_uri, _uri')
               THEN /\ handlerRenders' = handlerRenders + 1
                    /\ render(_uri', _enabled')
               ELSE UNCHANGED <<handlerRenders, hovers, domVisible,
                                domDisabled, buttonsLive>>
       ELSE UNCHANGED <<_uri, _enabled, handled, handlerRenders, hovers,
                        domVisible, domDisabled, buttonsLive>>
    /\ UNCHANGED <<disposed, subscribed, fired, toggling, listenerSaw,
                   promptInstructions>>
    /\ UNCHANGED <<readerVars, overlapVars>>

\* the change listener left out of the widget's store
changeListenerNotRegistered == FALSE

\* whether the onDidChangeContext listener is registered with the widget's
\* store: `this._register(this.attachmentsModel.onDidChangeContext(...))`
changeListenerRegistered == TRUE

\* dispose(): the first call disposes the store, which holds the change
\* listener, renderDisposables and the registered hovers; what is created
\* after that is in no store, and a second call finds nothing to dispose
Dispose ==
    /\ disposed' = TRUE
    /\ subscribed' = (subscribed /\ ~changeListenerRegistered)
    /\ buttonsLive' = IF disposed THEN buttonsLive ELSE FALSE
    /\ hovers' = IF disposed THEN hovers ELSE 0
    /\ UNCHANGED <<_enabled, _uri, fired, toggling, listenerSaw, handled,
                   handlerRenders, domVisible, domDisabled,
                   promptInstructions, pending>>
    /\ UNCHANGED <<readerVars, overlapVars>>

---------------------------------------------------------------------------
(* Specifications *)

ReaderNext == ListFiles \/ StorageResolves \/ ResolveAllReturns \/ Return

\* the reader alone: the widget stays as constructed
ReaderSpecInit ==
    /\ pc = "idle"
    /\ callState = "EMPTY"
    /\ callFolders = <<>>
    /\ requests = <<>>
    /\ results = <<>>
    /\ files = <<>>
    /\ WidgetInit(<<>>)
    /\ workspace = [state |-> "EMPTY", folders |-> <<>>]
    /\ calls = [c \in CallIds |-> IdleCall]

ReaderSpec == ReaderSpecInit /\ [][ReaderNext]_vars

WidgetNext ==
    \/ Toggle
    \/ ToggleRender
    \/ ModelChange
    \/ RemoveClick
    \/ OnDidChangeContext
    \/ Dispose

\* the widget alone, constructed against a model in any state; no call of
\* the reader is made
WidgetSpecInit ==
    /\ pc = "idle"
    /\ callState = "EMPTY"
    /\ callFolders = <<>>
    /\ requests = <<>>
    /\ results = <<>>
    /\ files = <<>>
    /\ \E pi \in PromptInstructionsValues : WidgetInit(pi)
    /\ workspace = [state |-> "EMPTY", folders |-> <<>>]
    /\ calls = [c \in CallIds |-> IdleCall]

WidgetSpec == WidgetSpecInit /\ [][WidgetNext]_vars

\* the widget under the scheduling of synchronous emitters: an emitted
\* notification is delivered, and toggle() goes on to render once fire()
\* has returned
WidgetFairSpec ==
    /\ WidgetSpecInit
    /\ [][WidgetNext]_vars
    /\ WF_vars(OnDidChangeContext)
    /\ WF_vars(ToggleRender)

\* two callers of one reader, on a workspace in any of its descriptions
OverlapSpecInit ==
    /\ pc = "idle"
    /\ callState = "EMPTY"
    /\ callFolders = <<>>
    /\ requests = <<>>
    /\ results = <<>>
    /\ files = <<>>
    /\ WidgetInit(<<>>)
    /\ workspace \in OverlapConfigs
    /\ calls = [c \in CallIds |-> IdleCall]

OverlapSpec == OverlapSpecInit /\ [][OverlapNext]_vars

---------------------------------------------------------------------------
(* Claims about PromptInstructionsFileReader, checked under ReaderSpec *)

Range(seq) == { seq[i] : i \in 1..Len(seq) }

CopilotSegment == <<".", "c", "o", "p", "i", "l", "o", "t">>
InstructionsSegment == <<"i", "n", "s", "t", "r", "u", "c", "t", "i", "o", "n", "s">>
F1 == << <<"F", "1">> >>
F2 == << <<"F", "2">> >>

\* a result that carries a listing of children
HasListing(result) ==
    result.success /\ result.stat.defined /\ result.stat.hasChildren

\* a child that is a file whose name's last three characters are . m d
Qualifies(child) ==
    /\ ~child.isDirectory
    /\ Len(child.name) >= 3
    /\ child.name[Len(child.name) - 2] = "."
    /\ child.name[Len(child.name) - 1] = "m"
    /\ child.name[Len(child.name)] = "d"

\* the positions <<i, j>> of the children listed by results[i]
ChildPositions ==
    { p \in (1..Len(results)) \X (1..MaxEntries + 1) :
        HasListing(results[p[1]]) /\ p[2] <= Len(results[p[1]].stat.children) }

ChildAt(p) == results[p[1]].stat.children[p[2]]

QualifyingPositions == { p \in ChildPositions : Qualifies(ChildAt(p)) }

\* C1: when the workbench state is EMPTY, listFiles returns an empty sequence
\* and resolveAll is not invoked at all during the call, not even with an
\* empty batch.
C1_EmptyWorkspaceNoResolveAll ==
    (pc # "idle" /\ callState = "EMPTY") => (files = <<>> /\ requests = <<>>)

\* C2: for a non-empty workspace with N folders, one listFiles call issues
\* exactly one resolveAll request with N entries, the i-th being the i-th
\* folder's URI joined with .copilot/instructions.
C2_OneBatchedRequest ==
    (pc # "idle" /\ callState # "EMPTY") =>
        /\ Len(requests) = 1
        /\ Len(requests[1]) = Len(callFolders)
        /\ \A i \in 1..Len(callFolders) :
              requests[1][i].resource =
                  callFolders[i] \o <<CopilotSegment, InstructionsSegment>>

C2_Witness ==
    /\ pc = "done"
    /\ callState = "WORKSPACE"
    /\ callFolders = <<F1, F2>>
    /\ Len(requests) = 1
    /\ Len(requests[1]) = 2

\* C3: a resource is in the listFiles result iff it is a direct child of a
\* location that resolved with a children listing, is not a directory, and
\* its name ends with the case-sensitive suffix .md; foo.md, a.b.md and .md
\* qualify, foo.MD, notes.txt and a directory sub.md do not, and children of
\* subdirectories are never returned.
C3_IncludedIffQualifyingChild ==
    /\ endsWith(<<"f", "o", "o", ".", "m", "d">>, INSTRUCTIONS_FILE_EXTENSION)
    /\ endsWith(<<"a", ".", "b", ".", "m", "d">>, INSTRUCTIONS_FILE_EXTENSION)
    /\ endsWith(<<".", "m", "d">>, INSTRUCTIONS_FILE_EXTENSION)
    /\ ~endsWith(<<"f", "o", "o", ".", "M", "D">>, INSTRUCTIONS_FILE_EXTENSION)
    /\ ~endsWith(<<"n", "o", "t", "e", "s", ".", "t", "x", "t">>,
                 INSTRUCTIONS_FILE_EXTENSION)
    /\ pc = "done" =>
        /\ \A r \in Range(files) :
              \E p \in QualifyingPositions : ChildAt(p).resource = r
        /\ \A p \in ChildPositions :
              LET child == ChildAt(p)
              IN  /\ Qualifies(child) => child.resource \in Range(files)
                  /\ child.isDirectory => child.resource \notin Range(files)
                  /\ child.name \in { <<"a", ".", "m", "d">>,
                                      <<"a", ".", "b", ".", "m", "d">>,
                                      <<".", "m", "d">> }
                       => (child.resource \in Range(files) <=> ~child.isDirectory)
                  /\ child.name \in { <<"f", "o", "o", ".", "M", "D">>,
                                      <<"b", ".", "t", "x", "t">> }
                       => child.resource \notin Range(files)
                  /\ \A g \in Range(child.children) :
                        g.resource \notin Range(files)

C3_Witness ==
    /\ pc = "done"
    /\ Len(files) = 1
    /\ \E p \in ChildPositions :
          /\ ChildAt(p).isDirectory
          /\ ChildAt(p).name = <<"s", "u", "b", ".", "m", "d">>
          /\ ChildAt(p).children # <<>>
    /\ \E p \in ChildPositions :
          /\ ChildAt(p).name = <<".", "m", "d">>
          /\ files[1] = ChildAt(p).resource

\* results without its i-th element
RemoveAt(seq, i) == SubSeq(seq, 1, i - 1) \o SubSeq(seq, i + 1, Len(seq))

ScenarioResults ==
    << Listing(F1 \o <<CopilotSegment, InstructionsSegment>>,
               << FileEntry(<<"a", ".", "m", "d">>),
                  FileEntry(<<"b", ".", "t", "x", "t">>) >>),
       Failed >>

\* C4: listFiles completes for every combination of per-location outcomes; a
\* location with success = false, with no stat, or with a stat without
\* children contributes nothing and does not change what the others
\* contribute; with F1 listing a.md and b.txt and F2 failing to resolve the
\* result is exactly [F1/.copilot/instructions/a.md].
C4_FailedLocationsContributeNothing ==
    /\ pc = "done" =>
        /\ Len(results) = Len(callFolders)
        /\ \A i \in 1..Len(results) :
              ~HasListing(results[i]) => files = collectFiles(RemoveAt(results, i))
        /\ (\A i \in 1..Len(results) : ~HasListing(results[i])) => files = <<>>
        /\ results = ScenarioResults =>
              files = << F1 \o <<CopilotSegment, InstructionsSegment,
                                 <<"a", ".", "m", "d">> >> >>

C4_Witness ==
    /\ pc = "done"
    /\ callFolders = <<F1, F2>>
    /\ results = ScenarioResults
    /\ Len(files) = 1

\* position p comes no later than q in the order of results, then of listing
NoLater(p, q) == p[1] < q[1] \/ (p[1] = q[1] /\ p[2] <= q[2])

\* C5: the result is the concatenation, in the order of the resolveAll
\* results, of each location's qualifying children in listing order; nothing
\* is reordered or deduplicated, so a resource that qualifies under two
\* locations appears twice.
C5_OrderPreservingConcatenation ==
    pc = "done" =>
        /\ Len(files) = Cardinality(QualifyingPositions)
        /\ \A q \in QualifyingPositions :
              files[Cardinality({ p \in QualifyingPositions : NoLater(p, q) })]
                  = ChildAt(q).resource

C5_Witness ==
    /\ pc = "done"
    /\ Len(files) = 2
    /\ files[1] = files[2]
    /\ \E p, q \in QualifyingPositions :
          p[1] # q[1] /\ ChildAt(p).resource = ChildAt(q).resource

---------------------------------------------------------------------------
(* Claims about PromptInstructionsAttachmentWidget, checked under WidgetSpec *)

U1 == << <<"U", "1">> >>
R1 == << <<"R", "1">> >>
R2 == << <<"R", "2">> >>

\* C6: in every state of the widget each toggle call flips enabled and fires
\* exactly one 'enabled state changed' notification; two toggle calls in
\* succession restore the original enabled value and fire two notifications
\* (enabled starts true, so it is true exactly after an even number of fires).
C6_ToggleFlipsAndFiresOnce ==
    /\ [][Toggle => (_enabled' = ~_enabled /\ fired' = fired + 1)]_vars
    /\ [](_enabled <=> (fired % 2 = 0))

C6_Witness ==
    /\ fired = 2
    /\ _enabled
    /\ _uri # <<>>
    /\ ~disposed

\* C7: once the widget has processed a change notification, visible is true
\* exactly when the model had a prompt-instructions document at the time of
\* the notification, and currentUri is that document's URI; in every state
\* visible holds iff currentUri is defined.
C7_VisibleFollowsModelOnChange ==
    /\ [][(OnDidChangeContext /\ subscribed) =>
            /\ visible' <=> (promptInstructions # <<>>)
            /\ promptInstructions # <<>> => _uri' = <<promptInstructions[1].uri>>
            /\ promptInstructions = <<>> => _uri' = <<>>]_vars
    /\ [](visible <=> _uri # <<>>)

\* attached by a first notification while disabled, detached by a second one
C7_Witness ==
    /\ handlerRenders = 2
    /\ ~visible
    /\ promptInstructions = <<>>
    /\ pending = 0
    /\ domDisabled
    /\ ~disposed

\* C8: references is empty when the model has no prompt-instructions
\* document; otherwise it is the model's valid file references in their order
\* followed by the document's own URI, which is therefore the last element.
C8_ReferencesEndWithDocument ==
    /\ promptInstructions = <<>> => references = <<>>
    /\ promptInstructions # <<>> =>
        LET doc == promptInstructions[1]
        IN  /\ Len(references) = Len(doc.validFileReferenceUris) + 1
            /\ references[Len(references)] = doc.uri
            /\ \A i \in 1..Len(doc.validFileReferenceUris) :
                  references[i] = doc.validFileReferenceUris[i]

C8_Witness ==
    /\ promptInstructions # <<>>
    /\ promptInstructions[1].validFileReferenceUris = <<R1, R2>>
    /\ references = <<R1, R2, U1>>
    /\ handlerRenders > 0

\* C9: after the widget is disposed no change notification invokes the
\* re-render or changes currentUri; disposal releases the change
\* subscription from whichever state it happens in.
C9_NoChangeHandlingAfterDispose ==
    /\ [](disposed => ~subscribed)
    /\ [][disposed => (handlerRenders' = handlerRenders /\ _uri' = _uri)]_vars
    /\ [][(disposed /\ OnDidChangeContext) =>
            UNCHANGED <<domVisible, domDisabled, buttonsLive>>]_vars

\* a notification emitted after the last handled one was delivered to a
\* disposed widget, which still shows the document the model has dropped
C9_Witness ==
    /\ disposed
    /\ handlerRenders > 0
    /\ pending = 0
    /\ _uri # <<>>
    /\ promptInstructions = <<>>

\* C10: after the widget is disposed it fires no further 'enabled state
\* changed' notification, whatever is invoked afterwards, a toggle call
\* included.
C10_NoFireAfterDispose == [][disposed => fired' = fired]_vars

\* C11: the two state axes are independent: the change handler is the only
\* writer of currentUri and toggle the only writer of enabled; toggle and the
\* Remove action leave currentUri unchanged, and a change notification
\* leaves enabled unchanged.
C11_IndependentAxes ==
    /\ [][_uri' # _uri => (OnDidChangeContext /\ subscribed)]_vars
    /\ [][_enabled' # _enabled => Toggle]_vars
    /\ [][(Toggle \/ ToggleRender \/ RemoveClick) => _uri' = _uri]_vars
    /\ [][OnDidChangeContext => _enabled' = _enabled]_vars

\* disabled by the one toggle, and attached by the last of three handled
\* notifications: still disabled
C11_Witness ==
    /\ ~_enabled
    /\ fired = 1
    /\ handled = 3
    /\ _uri # <<>>
    /\ domDisabled
    /\ ~toggling

\* C12: the Remove action only calls the model's removePromptInstructions: it
\* neither clears currentUri nor renders, so the widget stays visible until
\* a change notification is processed; a notification processed while the
\* model has no document leaves currentUri undefined and the widget hidden,
\* and once the model has emitted after a removal the widget becomes
\* Detached (unless the model gets a document again, or the widget is
\* disposed, before the notification is delivered).
C12_RemoveDelegatesToModel ==
    /\ [][RemoveClick =>
            /\ promptInstructions' = <<>>
            /\ pending' = pending + 1
            /\ _uri' = _uri
            /\ visible'
            /\ UNCHANGED <<domVisible, domDisabled, buttonsLive, hovers,
                           handled, handlerRenders>>]_vars
    /\ [][(visible /\ ~visible') => (OnDidChangeContext /\ subscribed)]_vars
    /\ [][(OnDidChangeContext /\ subscribed /\ promptInstructions = <<>>) =>
            (_uri' = <<>> /\ ~visible' /\ ~domVisible')]_vars
    /\ (promptInstructions = <<>> /\ pending > 0 /\ subscribed)
          ~> (~visible \/ promptInstructions # <<>> \/ ~subscribed)

\* the model has dropped the document, its notification is not yet
\* processed, and the widget still shows the document
C12_Witness ==
    /\ promptInstructions = <<>>
    /\ pending = 1
    /\ subscribed
    /\ visible
    /\ domVisible
    /\ buttonsLive

\* C13: reactions to change notifications do not interleave: each handled
\* notification writes currentUri from the model as the handler reads it and
\* renders once before any later one is handled, so after k handled
\* notifications exactly k handler renders have run.
C13_HandlersRunToCompletion ==
    /\ [][(OnDidChangeContext /\ subscribed) =>
            /\ handled' = handled + 1
            /\ handlerRenders' = handlerRenders + 1
            /\ _uri' = modelUri(promptInstructions)
            /\ domVisible' = (promptInstructions # <<>>)]_vars
    /\ [][handlerRenders' # handlerRenders =>
            (OnDidChangeContext /\ subscribed)]_vars
    /\ [](handlerRenders = handled)

\* three notifications handled, the last with the document unchanged
C13_Witness ==
    /\ handled = 3
    /\ handlerRenders = 3
    /\ pending = 0
    /\ _uri = modelUri(promptInstructions)
    /\ hovers = 3
    /\ fired = 0

\* C14: within one toggle call enabled is flipped, then the notification is
\* fired, then the widget is rendered: a listener reads the flipped value,
\* nothing is rendered before the listeners have run, and the render that
\* follows them shows currentUri and enabled as they are by then.
C14_FlipFireRender ==
    /\ [][Toggle =>
            /\ _enabled' = ~_enabled
            /\ listenerSaw' = _enabled'
            /\ toggling'
            /\ UNCHANGED <<domVisible, domDisabled, buttonsLive, hovers>>]_vars
    /\ [](toggling => listenerSaw = _enabled)
    /\ [][ToggleRender =>
            /\ ~toggling'
            /\ domVisible' = (_uri # <<>>)
            /\ _uri # <<>> => domDisabled' = ~_enabled
            /\ UNCHANGED <<_uri, _enabled>>]_vars
    /\ toggling ~> ~toggling

\* the only toggle so far has disabled the widget and not rendered yet, its
\* listeners have read the flipped value, and a notification handled since
\* the flip has rendered the attached document as disabled
C14_Witness ==
    /\ toggling
    /\ fired = 1
    /\ ~_enabled
    /\ listenerSaw = FALSE
    /\ _uri # <<>>
    /\ domVisible
    /\ domDisabled

\* C15: visible and references agree in every reachable state: references
\* is non-empty iff visible is true, and when visible is true its last
\* element is currentUri; also right after construction against a model
\* that already has a document, and between a model change and the
\* processing of its notification.
C15_VisibleAgreesWithReferences ==
    /\ visible <=> references # <<>>
    /\ visible => references[Len(references)] = _uri[1]

\* C16: every render releases what the previous render created, so the live
\* render-created resources are those of the most recent render only and do
\* not grow with the number of renders.
C16_OnlyLastRenderResourcesLive ==
    hovers <= (IF buttonsLive THEN 1 ELSE 0)

\* C17: after every completed handler of a non-disposed widget the view
\* matches the state: the node is shown iff visible is true, and when shown
\* it carries the 'disabled' marker iff enabled is false.
C17_ViewMatchesState ==
    (~disposed /\ ~toggling) =>
        /\ domVisible <=> visible
        /\ domVisible => (domDisabled <=> ~_enabled)

\* toggled once while detached (that render set up no hover), then attached
C17_Witness ==
    /\ ~disposed
    /\ ~toggling
    /\ fired = 1
    /\ handled = 1
    /\ hovers = 1
    /\ domVisible
    /\ domDisabled

---------------------------------------------------------------------------
(* Claims about overlapping listFiles calls, checked under OverlapSpec *)

\* the candidate locations of the folders call c found open when it started
SnapshotLocations(c) ==
    IF calls[c].state = "EMPTY"
    THEN {}
    ELSE { calls[c].folders[i] \o <<CopilotSegment, InstructionsSegment>> :
             i \in 1..Len(calls[c].folders) }

\* C18: each listFiles call reads the workbench state and the folders once,
\* before its storage request, and keeps nothing between calls: a pending
\* call's request and result come from the folders open when it started,
\* whatever the workspace becomes meanwhile; overlapping calls do not touch
\* one another; and every call derives its locations and queries the storage
\* anew.
C18_CallsAreIndependentSnapshots ==
    /\ [](\A c \in CallIds :
            calls[c].pc # "idle" =>
              /\ Len(calls[c].requests) = 1
              /\ { calls[c].requests[1][i].resource :
                     i \in 1..Len(calls[c].requests[1]) } = SnapshotLocations(c)
              /\ Len(calls[c].requests[1]) =
                   (IF calls[c].state = "EMPTY" THEN 0 ELSE Len(calls[c].folders))
              /\ \A f \in Range(calls[c].files) :
                    SubSeq(f, 1, Len(f) - 1) \in SnapshotLocations(c))
    /\ [][\A c \in CallIds :
            /\ (calls[c].pc = "idle" /\ calls'[c].pc # "idle") =>
                  /\ calls'[c].state = workspace.state
                  /\ calls'[c].folders = workspace.folders
                  /\ calls'[c].results = <<>>
            /\ (calls[c].pc # "idle" /\ calls'[c].pc # "idle") =>
                  /\ calls'[c].state = calls[c].state
                  /\ calls'[c].folders = calls[c].folders
                  /\ calls'[c].requests = calls[c].requests
            /\ (calls[c].pc = "done" /\ calls'[c].pc = "done") =>
                  calls'[c].files = calls[c].files]_vars
    /\ [][\A c, d \in CallIds :
            (c # d /\ calls'[c] # calls[c]) => calls'[d] = calls[d]]_vars
    /\ [][workspace' # workspace => calls' = calls]_vars

\* the first call has returned a.md of F1's folder although the workspace no
\* longer holds F1, while the second call, started later on other folders,
\* is still pending
C18_Witness ==
    /\ calls["first"].pc = "done"
    /\ calls["first"].folders = <<F1>>
    /\ Len(calls["first"].files) = 1
    /\ calls["second"].pc = "awaiting"
    /\ calls["second"].folders = <<F2>>
    /\ calls["second"].results # <<>>
    /\ workspace.state = "EMPTY"

====
